---- MODULE Spec2Model ----
(***************************************************************************)
(* Model of UCTB.dataset.data_loader.NodeTrafficLoader.__init__: the       *)
(* construction phases of the loader (range resolution, external feature  *)
(* assembly, split, normalisation, truncation, test expansion, window     *)
(* sampling of traffic and of external features, re-slicing).             *)
(*                                                                         *)
(* Arrays are sequences of rows.  A traffic row is [slot, val]: slot is   *)
(* the position of the row in dataset.node_traffic (0-based, as in the    *)
(* source), val its value.  An external row is [slot]: the time slot the  *)
(* feature vector was computed for.  One node is modelled per row.        *)
(* Ratios are in tenths (test_ratio = 2 stands for 0.2), daily_slots is   *)
(* an integer (time_fitness divides 1440).                                *)
(***************************************************************************)
EXTENDS Integers, Sequences, FiniteSets, TLC

\* ------------------------------------------------------------------ bounds
MaxRawLen    == 12
MaxCloseness == 2
MaxPeriod    == 2
MaxTrend     == 1
MaxLstm      == 3
MaxTrainDays == 8
MaxSourceRows     == 8
MaxSimSeed        == 3
MaxEndDay    == 14

\* ------------------------------------------------------- program constants
target_length == 1

RawLens           == {1, MaxRawLen}
TimeFitnessValues == {1440, 720}
TestRatios        == {-1, 0, 2, 5, 10, 11}
ExternalUses      == {{}, {"weather"}, {"holiday", "tp"}, {"weather", "holiday", "tp"}}
DataRanges        == {[kind |-> "all", lo |-> 0, hi |-> 0],
                      [kind |-> "float", lo |-> 5, hi |-> 0],
                      [kind |-> "days", lo |-> 1, hi |-> 5],
                      [kind |-> "days", lo |-> 1, hi |-> MaxEndDay]}
TrainDataLengths  == {[kind |-> "all", days |-> 0],
                      [kind |-> "str", days |-> 0],
                      [kind |-> "str", days |-> MaxTrainDays],
                      [kind |-> "int", days |-> 1]}
TwinCuts          == {2, MaxRawLen - 2}
GraphArgs         == {<<"Distance", "interaction", "LINE", "Correlation">>,
                      <<"Neighbor", "transfer">>,
                      <<"Correlation", "Bogus", "Neighbor">>}
TwinBump          == 3
WeatherDim        == 3

\* --------------------------------------------------------------- helpers
Max2(a, b) == IF a >= b THEN a ELSE b
Min2(a, b) == IF a <= b THEN a ELSE b
Max3(a, b, c) == Max2(a, Max2(b, c))

SetMin(S) == CHOOSE x \in S : \A y \in S : x <= y
SetMax(S) == CHOOSE x \in S : \A y \in S : x >= y

\* Python slice bound: negative counts from the end, both ends clamp.
PyIndex(i, n) == IF i < 0 THEN Max2(n + i, 0) ELSE Min2(i, n)
\* s[a:b]
PySlice(s, a, b) == SubSeq(s, PyIndex(a, Len(s)) + 1, PyIndex(b, Len(s)))
\* s[a:]
PyFrom(s, a) == SubSeq(s, PyIndex(a, Len(s)) + 1, Len(s))

\* An optional array attribute: None, or an array of rows.
None == [none |-> TRUE, rows |-> <<>>]
Arr(rows) == [none |-> FALSE, rows |-> rows]

\* A raw (not normalised) value v, and a min-max normalised one:
\* the number num / (span + eps).
Raw(v) == [num |-> v, span |-> 1, eps |-> FALSE]

\* The raw series: value of slot s (0-based).
RawValue(s) == 1 + ((s * 2) % 3)
NodeTraffic(n) == [i \in 1..n |-> [slot |-> i - 1, val |-> Raw(RawValue(i - 1))]]
\* A second series, equal to the first before slot cut and larger after it.
TwinTraffic(n, cut) ==
    [i \in 1..n |-> [slot |-> i - 1,
                     val |-> Raw(RawValue(i - 1) + (IF i - 1 >= cut THEN TwinBump ELSE 0))]]
\* The column sums of dataset.node_traffic, one per raw node: with
\* time_fitness 1440 nodes 0 and 2 are inactive, with 720 every node is active.
NodeTrafficSum(n, tf) ==
    IF tf = 1440 THEN <<0, 2 * n, n, n + 1>>
    ELSE <<(n \div 2) + 1, 2 * n, 2 * n>>

\* dataset.external_feature_weather: one row per slot of node_traffic.
Weather(n) == [i \in 1..n |-> [slot |-> i - 1]]

\* ------------------------------------------------ SplitData (preprocess)
\* round(x / 10) for x >= 0, halves to the even neighbour.
RoundTenths(x) ==
    LET q == x \div 10
        r == x % 10
    IN  IF r < 5 THEN q
        ELSE IF r > 5 THEN q + 1
        ELSE IF q % 2 = 0 THEN q ELSE q + 1

\* split_data fails on an array shorter than the number of partitions.
SplitFails(array) == Len(array) < 2

\* split_data(array, [1 - test_ratio, test_ratio]): contiguous partitions,
\* the first of round(len * ratio) rows, the last absorbing the remainder.
split_data(array, ratio) ==
    LET n == RoundTenths(Len(array) * ratio[1])
    IN  <<SubSeq(array, 1, n), SubSeq(array, n + 1, Len(array))>>

\* ------------------------------------------------ Normalizer (preprocess)
\* Normalizer(X): min and max of the fitting array.
Normalizer(X) ==
    [min |-> SetMin({X[i].val.num : i \in 1..Len(X)}),
     max |-> SetMax({X[i].val.num : i \in 1..Len(X)})]

\* min_max_normal: (x - min) / (max - min + eps), row by row.
min_max_normal(nz, X) ==
    [i \in 1..Len(X) |->
        [slot |-> X[i].slot,
         val  |-> [num |-> X[i].val.num - nz.min, span |-> nz.max - nz.min, eps |-> TRUE]]]

\* --------------------------------------------- ST_MoveSample (preprocess)
\* The sampler's configuration record.
ST_MoveSample(c, p, t, tl, ds) ==
    [closeness_len |-> c, period_len |-> p, trend_len |-> t,
     target_length |-> tl, daily_slots |-> ds]

max_lookback(ms) ==
    Max3(ms.closeness_len, ms.period_len * ms.daily_slots, ms.trend_len * 7 * ms.daily_slots)

\* Nothing to sample.
MoveSampleFails(ms) == ms.closeness_len = 0 /\ ms.period_len = 0 /\ ms.trend_len = 0

\* Number of current indices i with max_lookback <= i <= T - target_length.
SampleCount(ms, T) == Max2(0, T - ms.target_length - max_lookback(ms) + 1)

\* The 0-based current index of output row k (1-based).
CurrentIndex(ms, k) == max_lookback(ms) + k - 1

\* data[i], i 0-based.
At(data, i) == data[i + 1]

\* move_sample(data): the four output arrays, one row per current index.
move_sample(ms, data) ==
    LET n == SampleCount(ms, Len(data))
        i(k) == CurrentIndex(ms, k)
    IN  [closeness |->
            IF ms.closeness_len > 0
            THEN [k \in 1..n |-> [j \in 1..ms.closeness_len |->
                        At(data, i(k) - ms.closeness_len + j - 1)]]
            ELSE <<>>,
         period |->
            IF ms.period_len > 0
            THEN [k \in 1..n |-> [j \in 1..ms.period_len |->
                        At(data, i(k) - (ms.period_len - j + 1) * ms.daily_slots)]]
            ELSE <<>>,
         trend |->
            IF ms.trend_len > 0
            THEN [k \in 1..n |-> [j \in 1..ms.trend_len |->
                        At(data, i(k) - (ms.trend_len - j + 1) * 7 * ms.daily_slots)]]
            ELSE <<>>,
         y |->
            IF ms.target_length > 0
            THEN [k \in 1..n |-> SubSeq(data, i(k) + 1, i(k) + ms.target_length)]
            ELSE <<>>]

\* ------------------------------------------------------------------ state
VARIABLES
    pc,                 \* the construction phase about to run, "done" or "error"
    dataset,            \* the DataSet read at line 102
    twin,               \* a second construction over a series differing from slot twin.cut on
    daily_slots,
    closeness_len, period_len, trend_len, external_lstm_len,
    data_range, num_time_slots,
    traffic_data,
    external_use, external_feature,
    test_ratio, train_test_ratio,
    normalize, normalizer,
    train_data_length,
    train_data, test_data, train_ef, test_ef,
    train_closeness, train_period, train_trend, train_y,
    test_closeness, test_period, test_trend, test_y,
    train_sequence_len, test_sequence_len,
    train_ef_closeness, train_ef_period, train_ef_trend, train_lstm_ef,
    test_ef_closeness, test_ef_period, test_ef_trend, test_lstm_ef,
    traffic_data_index, station_number,
    node_axis,          \* the raw node of each column of traffic_data, train_data, test_data
    external_onehot_dim, external_dim, external_columns,
    with_tpe, tpe_dim,
    with_lm, graph, AM, LM,
    raised,             \* the exception that aborted the constructor, "" if none
    build_pc,           \* the position of STMeta.build, "idle" when no model is built
    model,              \* the attributes STMeta.__init__ stored
    input,              \* the names registered in self._input, in order
    embedding_layers,   \* the per-class embedding layers created so far
    build_raised,       \* the exception that aborted build, "" if none
    transfer_pc,        \* the position of traffic_sim / traffic_sim_fake, "idle" if not called
    transfer,           \* the three loaders of a TransferDataLoader and the method called
    scan_i,             \* the loop variable i, the start of the source window
    similar_record      \* the list of [sim, index, start, end], one per target node

lenVars     == <<closeness_len, period_len, trend_len, external_lstm_len>>
rangeVars   == <<data_range, num_time_slots>>
extVars     == <<external_use, external_feature>>
ratioVars   == <<test_ratio, train_test_ratio>>
normVars    == <<normalize, normalizer>>
partVars    == <<train_data, test_data, train_ef, test_ef>>
trafficWin  == <<train_closeness, train_period, train_trend, train_y,
                 test_closeness, test_period, test_trend, test_y,
                 train_sequence_len, test_sequence_len>>
externalWin == <<train_ef_closeness, train_ef_period, train_ef_trend, train_lstm_ef,
                 test_ef_closeness, test_ef_period, test_ef_trend, test_lstm_ef>>

nodeVars    == <<traffic_data_index, station_number, node_axis>>
dimVars     == <<external_onehot_dim, external_dim, external_columns>>
tpeVars     == <<with_tpe, tpe_dim>>
graphVars   == <<with_lm, graph, AM, LM>>
buildVars   == <<build_pc, model, input, embedding_layers, build_raised>>

loaderVars == <<pc, dataset, twin, daily_slots, lenVars, rangeVars, traffic_data, extVars,
                ratioVars, normVars, train_data_length, partVars, trafficWin, externalWin,
                nodeVars, dimVars, tpeVars, graphVars, raised>>

transferVars == <<transfer_pc, transfer, scan_i, similar_record>>

vars == <<loaderVars, buildVars, transferVars>>

\* The twin construction is followed up to the normalisation only.
TwinEnded ==
    [cut |-> 0, traffic_data |-> <<>>, train_data |-> <<>>, test_data |-> <<>>,
     normalizer |-> [min |-> 0, max |-> 0]]

\* str.lower() compared case-sensitively.
Lower_identity(name) == name

\* str.lower() on the names in use.
Lower(name) ==
    CASE name = "Distance" -> "distance"
      [] name = "LINE" -> "line"
      [] name = "Correlation" -> "correlation"
      [] name = "Neighbor" -> "neighbor"
      [] name = "Bogus" -> "bogus"
      [] name = "Classified" -> "classified"
      [] OTHER -> name


\* No attribute of the loader is assigned yet.
LoaderUnset ==
    /\ daily_slots = 0
    /\ closeness_len = 0 /\ period_len = 0 /\ trend_len = 0 /\ external_lstm_len = 0
    /\ data_range = <<0, 0>> /\ num_time_slots = 0
    /\ traffic_data = <<>>
    /\ external_use = {} /\ external_feature = <<>>
    /\ test_ratio = 0 /\ train_test_ratio = <<0, 0>>
    /\ normalize = FALSE /\ normalizer = [min |-> 0, max |-> 0]
    /\ train_data_length = [kind |-> "all", days |-> 0]
    /\ train_data = <<>> /\ test_data = <<>> /\ train_ef = <<>> /\ test_ef = <<>>
    /\ train_closeness = <<>> /\ train_period = <<>> /\ train_trend = <<>> /\ train_y = <<>>
    /\ test_closeness = <<>> /\ test_period = <<>> /\ test_trend = <<>> /\ test_y = <<>>
    /\ train_sequence_len = 0 /\ test_sequence_len = 0
    /\ train_ef_closeness = None /\ train_ef_period = None /\ train_ef_trend = None
    /\ train_lstm_ef = None
    /\ test_ef_closeness = None /\ test_ef_period = None /\ test_ef_trend = None
    /\ test_lstm_ef = None
    /\ traffic_data_index = <<>> /\ station_number = 0
    /\ node_axis = [traffic_data |-> <<>>, train_data |-> <<>>, test_data |-> <<>>]
    /\ external_onehot_dim = <<>> /\ external_dim = 0 /\ external_columns = <<>>
    /\ with_tpe = FALSE /\ tpe_dim = 0
    /\ with_lm = FALSE /\ graph = <<>> /\ AM = <<>> /\ LM = <<>>
    /\ raised = ""

\* No model is being built.
BuildIdle ==
    /\ build_pc = "idle"
    /\ model = [closeness_len |-> 0]
    /\ input = <<>>
    /\ embedding_layers = 0
    /\ build_raised = ""

\* No similarity search is running.
TransferIdle ==
    /\ transfer_pc = "idle"
    /\ transfer = [method |-> ""]
    /\ scan_i = 0
    /\ similar_record = <<>>

\* The state at entry of NodeTrafficLoader.__init__: the dataset file is what
\* the collaborator will read; nothing of self is assigned yet.
LoaderStart ==
    /\ pc = "load"
    /\ \E n \in RawLens, tf \in TimeFitnessValues :
          dataset = [node_traffic |-> NodeTraffic(n),
                     node_traffic_sum |-> NodeTrafficSum(n, tf),
                     time_fitness |-> tf,
                     external_feature_weather |-> Weather(n),
                     weather_dim |-> WeatherDim,
                     node_monthly_interaction |-> [months |-> n]]
    /\ \E cut \in TwinCuts :
          twin = [cut |-> cut, traffic_data |-> <<>>, train_data |-> <<>>,
                  test_data |-> <<>>, normalizer |-> [min |-> 0, max |-> 0]]
    /\ LoaderUnset
    /\ BuildIdle
    /\ TransferIdle

\* No loader is under construction.
LoaderIdle ==
    /\ pc = "idle"
    /\ dataset = [node_traffic |-> <<>>]
    /\ twin = TwinEnded
    /\ LoaderUnset

\* The arguments of STMeta(...) drawn for a build.
TemporalLens == {<<0, 0, 0>>, <<-1, 0, 0>>, <<1, 0, 0>>, <<0, 1, 0>>, <<-1, 1, 0>>, <<1, 1, 1>>}
WeatherLens == {0, 1}
NoDim == [none |-> TRUE, dim |-> 0]
Dim(n) == [none |-> FALSE, dim |-> n]
ExternalDims == {NoDim, Dim(0), Dim(WeatherDim + 7)}
ExternalMethods == {"not", "direct", "gating", "Classified", "bogus"}
ClassifiedDims == {<<WeatherDim, 1, 6>>, <<WeatherDim, 6>>}
EmbeddingDims == {<<10, 1, 5>>, <<10, 1>>, <<10, 1, 5, 2>>}

\* STMeta.__init__, lines 57-132, then build() is entered.
BuildStart ==
    /\ LoaderIdle
    /\ build_pc = "inputs"
    /\ \E lens \in TemporalLens, w \in WeatherLens, ed \in ExternalDims,
          method \in ExternalMethods, cls \in ClassifiedDims, emb \in EmbeddingDims :
          model = [closeness_len |-> lens[1], period_len |-> lens[2], trend_len |-> lens[3],
                   weather_len |-> w, external_dim |-> ed,
                   external_method |-> Lower(method),
                   embedding_dim |-> emb,
                   classified_external_feature_dim |-> cls]
    /\ input = <<>>
    /\ embedding_layers = 0
    /\ build_raised = ""
    /\ TransferIdle

\* The train partitions of the three loaders of a TransferDataLoader: the
\* source, the target and the target rebuilt with train_data_length '180'.
SourceRows == {MaxSourceRows - 2, MaxSourceRows}
TargetRows == {2, 3}
FakeTargetRows == {2, 3, 4}
TransferSlots == {1, 2}
TransferNodes == {1, 2}
SimSeeds == 0..MaxSimSeed
TransferMethods == {"traffic_sim", "traffic_sim_fake"}

\* lines 522-531, then traffic_sim() or traffic_sim_fake() is entered.
TransferStart ==
    /\ LoaderIdle
    /\ BuildIdle
    /\ transfer_pc = "scan"
    /\ \E sd \in SourceRows, td \in TargetRows, fake \in FakeTargetRows, ds \in TransferSlots,
          nodes \in TransferNodes, seed \in SimSeeds, method \in TransferMethods :
          transfer = [method |-> method, sd_rows |-> sd, td_rows |-> td, fake_rows |-> fake,
                      daily_slots |-> ds, sd_nodes |-> 2, td_nodes |-> nodes, seed |-> seed]
    /\ scan_i = 0
    /\ similar_record = <<>>

Init == LoaderStart \/ BuildStart \/ TransferStart

\* ---------------------------------------------------------------- phases
\* lines 102-104: read the dataset, derive daily_slots.
LoadDataset ==
    /\ pc = "load"
    /\ daily_slots' = (24 * 60) \div dataset.time_fitness
    /\ pc' = "lengths"
    /\ UNCHANGED <<dataset, twin, lenVars, rangeVars, traffic_data, extVars, ratioVars,
                   normVars, train_data_length, partVars, trafficWin, externalWin>>
    /\ UNCHANGED <<nodeVars, dimVars, tpeVars, graphVars, raised>>
    /\ UNCHANGED <<buildVars, transferVars>>

\* lines 106-115: take the window lengths, assert they are non-negative.
CheckLengths ==
    /\ pc = "lengths"
    /\ \E c \in (-1)..MaxCloseness, p \in (-1)..MaxPeriod, t \in (-1)..MaxTrend, l \in 0..MaxLstm :
          /\ closeness_len' = c
          /\ period_len' = p
          /\ trend_len' = t
          /\ external_lstm_len' = l
          /\ pc' = IF c >= 0 /\ p >= 0 /\ t >= 0 THEN "range" ELSE "error"
    /\ UNCHANGED <<dataset, twin, daily_slots, rangeVars, traffic_data, extVars, ratioVars,
                   normVars, train_data_length, partVars, trafficWin, externalWin>>
    /\ UNCHANGED <<nodeVars, dimVars, tpeVars, graphVars>>
    /\ UNCHANGED <<buildVars, transferVars>>
    /\ raised' = IF pc' = "error" THEN "AssertionError" ELSE raised

\* lines 117-124: the slot range [start, end) a data_range argument selects.
ResolveDataRange(arg) ==
    IF arg.kind = "all" THEN <<0, Len(dataset.node_traffic)>>
    ELSE IF arg.kind = "float" THEN <<0, (arg.lo * Len(dataset.node_traffic)) \div 10>>
    ELSE <<arg.lo * daily_slots, arg.hi * daily_slots>>

\* lines 117-126
ResolveRange ==
    /\ pc = "range"
    /\ \E arg \in DataRanges :
          /\ data_range' = ResolveDataRange(arg)
          /\ num_time_slots' = data_range'[2] - data_range'[1]
    /\ pc' = "filter"
    /\ UNCHANGED <<dataset, twin, daily_slots, lenVars, traffic_data, extVars, ratioVars,
                   normVars, train_data_length, partVars, trafficWin, externalWin>>
    /\ UNCHANGED <<nodeVars, dimVars, tpeVars, graphVars, raised>>
    /\ UNCHANGED <<buildVars, transferVars>>

\* A node whose mean traffic reaches exactly one per day counts as active.
Active_inclusive(sum, slots) == sum * daily_slots >= slots

\* line 129: np.mean(node_traffic, axis=0) * daily_slots > 1, for a node
\* whose column sums to sum over slots rows.
Active(sum, slots) == sum * daily_slots > slots

\* line 129: np.where(...)[0], the 0-based positions of the active nodes.
ActiveNodes ==
    LET sums == dataset.node_traffic_sum
        IsActive(i) == Active(sums[i + 1], Len(dataset.node_traffic))
    IN  SelectSeq([i \in 1..Len(sums) |-> i - 1], IsActive)

\* lines 129-132: the active nodes, the rows of the selected range.
FilterNodes ==
    /\ pc = "filter"
    /\ traffic_data_index' = ActiveNodes
    /\ node_axis' = [node_axis EXCEPT !.traffic_data = traffic_data_index']
    /\ UNCHANGED station_number
    /\ traffic_data' = PySlice(dataset.node_traffic, data_range[1], data_range[2])
    /\ twin' = [twin EXCEPT !.traffic_data =
                   PySlice(TwinTraffic(Len(dataset.node_traffic), twin.cut),
                           data_range[1], data_range[2])]
    /\ pc' = "external"
    /\ UNCHANGED <<dataset, daily_slots, lenVars, rangeVars, extVars, ratioVars,
                   normVars, train_data_length, partVars, trafficWin, externalWin>>
    /\ UNCHANGED <<dimVars, tpeVars, graphVars, raised>>
    /\ UNCHANGED <<buildVars, transferVars>>

\* lines 138-141: the weather block.
WeatherBlock == PySlice(dataset.external_feature_weather, data_range[1], data_range[2])

\* lines 165-169, 191-201: a block computed per slot e of
\* range(data_range[0], num_time_slots + data_range[0]).
CalendarBlock ==
    [i \in 1..Max2(num_time_slots, 0) |-> [slot |-> data_range[1] + i - 1]]

\* lines 135-205: the list of blocks to concatenate.
ExternalBlocks(use) ==
    (IF Len(dataset.external_feature_weather) > 0 /\ "weather" \in use
        THEN <<WeatherBlock>> ELSE <<>>)
    \o (IF "holiday" \in use THEN <<CalendarBlock>> ELSE <<>>)
    \o (IF "tp" \in use THEN <<CalendarBlock, CalendarBlock>> ELSE <<>>)

\* The slots e of range(data_range[0], num_time_slots + data_range[0]).
SlotsInRange == {data_range[1] + i - 1 : i \in 1..Max2(num_time_slots, 0)}

\* workday_parser: the series starts on a Monday at 00:00, Saturdays and
\* Sundays are no work days.
IsWorkDay(day) == (day % 7) < 5

\* one_hot: one column per distinct value.
OneHotWidth(values) == Cardinality(values)

\* lines 165-169: the holiday block, 1 for a work day else 0.
HolidayWidth == OneHotWidth({IF IsWorkDay(e \div daily_slots) THEN 1 ELSE 0 : e \in SlotsInRange})

\* lines 191-195: the hour of slot e.
HourOfDayWidth == OneHotWidth({((e * dataset.time_fitness) \div 60) % 24 : e \in SlotsInRange})

\* lines 198-201: the weekday of slot e.
DayOfWeekWidth == OneHotWidth({(e \div daily_slots) % 7 : e \in SlotsInRange})

WeatherUsed(use) == Len(dataset.external_feature_weather) > 0 /\ "weather" \in use

\* n copies of a column label.
Columns(label, n) == [i \in 1..n |-> label]

\* lines 140, 171, 204-205 and 210: the columns of the concatenated matrix.
ExternalColumns(use) ==
    (IF WeatherUsed(use) THEN Columns("weather", dataset.weather_dim) ELSE <<>>)
    \o (IF "holiday" \in use THEN Columns("holiday", HolidayWidth) ELSE <<>>)
    \o (IF "tp" \in use
        THEN Columns("hourofday", HourOfDayWidth) \o Columns("dayofweek", DayOfWeekWidth)
        ELSE <<>>)

\* The width list with the time-position entry counting the hour block only.
ExternalOnehotDim_hour_only(use) ==
    (IF WeatherUsed(use) THEN <<dataset.weather_dim>> ELSE <<>>)
    \o (IF "holiday" \in use THEN <<HolidayWidth>> ELSE <<>>)
    \o (IF "tp" \in use THEN <<HourOfDayWidth>> ELSE <<>>)

\* lines 141, 172, 203: one width per enabled source.
ExternalOnehotDim(use) ==
    (IF WeatherUsed(use) THEN <<dataset.weather_dim>> ELSE <<>>)
    \o (IF "holiday" \in use THEN <<HolidayWidth>> ELSE <<>>)
    \o (IF "tp" \in use THEN <<HourOfDayWidth + DayOfWeekWidth>> ELSE <<>>)

\* np.concatenate(axis=-1) needs blocks of equal row count.
ConcatFails(blocks) == \E a, b \in 1..Len(blocks) : Len(blocks[a]) # Len(blocks[b])

\* lines 134-215
AssembleExternal ==
    /\ pc = "external"
    /\ \E use \in ExternalUses :
          /\ external_use' = use
          /\ IF Len(ExternalBlocks(use)) > 0
             THEN IF ConcatFails(ExternalBlocks(use))
                  THEN /\ external_feature' = <<>> /\ pc' = "error"
                       /\ UNCHANGED <<external_onehot_dim, external_dim, external_columns>>
                  ELSE /\ external_feature' = ExternalBlocks(use)[1] /\ pc' = "ratio"
                       /\ external_columns' = ExternalColumns(use)
                       /\ external_onehot_dim' = ExternalOnehotDim(use)
                       /\ external_dim' = Len(ExternalColumns(use))
             ELSE /\ external_feature' = <<>> /\ pc' = "ratio"
                  /\ external_dim' = 0
                  /\ UNCHANGED <<external_onehot_dim, external_columns>>
    /\ UNCHANGED <<dataset, twin, daily_slots, lenVars, rangeVars, traffic_data, ratioVars,
                   normVars, train_data_length, partVars, trafficWin, externalWin>>
    /\ UNCHANGED <<nodeVars, tpeVars, graphVars>>
    /\ UNCHANGED <<buildVars, transferVars>>
    /\ raised' = IF pc' = "error" THEN "ValueError" ELSE raised

\* lines 219-221
RatioInvalid_upper_only(r) == r > 10

\* line 219, ratios in tenths.
RatioInvalid(r) == r > 10 \/ r < 0

CheckRatio ==
    /\ pc = "ratio"
    /\ station_number' = Len(node_axis.traffic_data)
    /\ UNCHANGED <<traffic_data_index, node_axis>>
    /\ \E r \in TestRatios :
          /\ test_ratio' = r
          /\ IF RatioInvalid(r)
             THEN train_test_ratio' = train_test_ratio /\ pc' = "error"
             ELSE train_test_ratio' = <<10 - r, r>> /\ pc' = "split"
    /\ UNCHANGED <<dataset, twin, daily_slots, lenVars, rangeVars, traffic_data, extVars,
                   normVars, train_data_length, partVars, trafficWin, externalWin>>
    /\ UNCHANGED <<dimVars, tpeVars, graphVars>>
    /\ UNCHANGED <<buildVars, transferVars>>
    /\ raised' = IF pc' = "error" THEN "ValueError" ELSE raised

\* lines 223-224
Split ==
    /\ pc = "split"
    /\ IF SplitFails(traffic_data) \/ SplitFails(external_feature)
       THEN /\ pc' = "error"
            /\ UNCHANGED <<partVars, twin, node_axis>>
       ELSE /\ train_data' = split_data(traffic_data, train_test_ratio)[1]
            /\ test_data' = split_data(traffic_data, train_test_ratio)[2]
            /\ train_ef' = split_data(external_feature, train_test_ratio)[1]
            /\ test_ef' = split_data(external_feature, train_test_ratio)[2]
            /\ twin' = [twin EXCEPT
                          !.train_data = split_data(twin.traffic_data, train_test_ratio)[1],
                          !.test_data = split_data(twin.traffic_data, train_test_ratio)[2]]
            /\ node_axis' = [node_axis EXCEPT !.train_data = node_axis.traffic_data,
                                               !.test_data = node_axis.traffic_data]
            /\ pc' = "normalize"
    /\ UNCHANGED <<dataset, daily_slots, lenVars, rangeVars, traffic_data, extVars,
                   ratioVars, normVars, train_data_length, trafficWin, externalWin>>
    /\ UNCHANGED <<traffic_data_index, station_number, dimVars, tpeVars, graphVars>>
    /\ UNCHANGED <<buildVars, transferVars>>
    /\ raised' = IF pc' = "error" THEN "ConfigError" ELSE raised

\* Fitting on the whole series instead of the train partition.
FitData_whole(train, whole) == whole

\* line 228: the array the normalizer is fitted on.
FitData(train, whole) == train

\* np.min / np.max of an empty array raise.
NormalizerFails(X) == Len(X) = 0

\* lines 227-230
Normalize ==
    /\ pc = "normalize"
    /\ \E b \in BOOLEAN :
          /\ normalize' = b
          /\ IF b
             THEN IF NormalizerFails(FitData(train_data, traffic_data))
                  THEN /\ pc' = "error"
                       /\ UNCHANGED <<normalizer, train_data, test_data, twin>>
                  ELSE LET nz == Normalizer(FitData(train_data, traffic_data))
                           tz == Normalizer(FitData(twin.train_data, twin.traffic_data))
                       IN  /\ normalizer' = nz
                           /\ train_data' = min_max_normal(nz, train_data)
                           /\ test_data' = min_max_normal(nz, test_data)
                           /\ twin' = [twin EXCEPT
                                         !.normalizer = tz,
                                         !.train_data = min_max_normal(tz, twin.train_data),
                                         !.test_data = min_max_normal(tz, twin.test_data)]
                           /\ pc' = "truncate"
             ELSE /\ pc' = "truncate"
                  /\ UNCHANGED <<normalizer, train_data, test_data, twin>>
    /\ UNCHANGED <<dataset, daily_slots, lenVars, rangeVars, traffic_data, extVars,
                   ratioVars, train_data_length, train_ef, test_ef, trafficWin, externalWin>>
    /\ UNCHANGED <<nodeVars, dimVars, tpeVars, graphVars>>
    /\ UNCHANGED <<buildVars, transferVars>>
    /\ raised' = IF pc' = "error" THEN "ValueError" ELSE raised

\* lines 233-235: the most recent int(days * daily_slots) rows.
Truncated(array, days) == PyFrom(array, -(days * daily_slots))

\* lines 232-235; an int argument has no lower().
Truncate ==
    /\ pc = "truncate"
    /\ \E arg \in TrainDataLengths :
          /\ train_data_length' = arg
          /\ IF arg.kind = "int"
             THEN pc' = "error" /\ UNCHANGED <<train_data, train_ef>>
             ELSE IF arg.kind = "all"
             THEN pc' = "expand" /\ UNCHANGED <<train_data, train_ef>>
             ELSE /\ train_data' = Truncated(train_data, arg.days)
                  /\ train_ef' = Truncated(train_ef, arg.days)
                  /\ pc' = "expand"
    /\ twin' = TwinEnded
    /\ UNCHANGED <<dataset, daily_slots, lenVars, rangeVars, traffic_data, extVars,
                   ratioVars, normVars, test_data, test_ef, trafficWin, externalWin>>
    /\ UNCHANGED <<nodeVars, dimVars, tpeVars, graphVars>>
    /\ UNCHANGED <<buildVars, transferVars>>
    /\ raised' = IF pc' = "error" THEN "AttributeError" ELSE raised

\* lines 238-241
expand_start_index_one_more ==
    Len(train_data) - Max3(daily_slots * period_len, daily_slots * 7 * trend_len, closeness_len) - 1

\* lines 238-241
expand_start_index ==
    Len(train_data) - Max3(daily_slots * period_len, daily_slots * 7 * trend_len, closeness_len)

\* lines 243-244
ExpandTest ==
    /\ pc = "expand"
    /\ test_data' = PyFrom(train_data, expand_start_index) \o test_data
    /\ test_ef' = PyFrom(train_ef, expand_start_index) \o test_ef
    /\ pc' = "sample"
    /\ UNCHANGED <<dataset, twin, daily_slots, lenVars, rangeVars, traffic_data, extVars,
                   ratioVars, normVars, train_data_length, train_data, train_ef,
                   trafficWin, externalWin>>
    /\ UNCHANGED <<nodeVars, dimVars, tpeVars, graphVars, raised>>
    /\ UNCHANGED <<buildVars, transferVars>>

\* The traffic sampler with period_len and trend_len exchanged.
st_move_sample_swapped == ST_MoveSample(closeness_len, trend_len, period_len, 1, daily_slots)

\* The traffic sampler built with the lookback of the closeness window only.
st_move_sample_closeness_only == ST_MoveSample(closeness_len, 0, 0, 1, daily_slots)

\* The traffic sampler with closeness_len raised to at least 1.
st_move_sample_closeness_floor ==
    ST_MoveSample(Max2(closeness_len, 1), period_len, trend_len, target_length, daily_slots)

\* lines 247-249
st_move_sample == ST_MoveSample(closeness_len, period_len, trend_len, 1, daily_slots)

\* lines 260-261
SequenceLen(closeness, period, trend) == Max3(Len(closeness), Len(period), Len(trend))

\* lines 247-261
SampleTraffic ==
    /\ pc = "sample"
    /\ IF MoveSampleFails(st_move_sample)
       THEN pc' = "error" /\ UNCHANGED trafficWin
       ELSE LET tr == move_sample(st_move_sample, train_data)
                te == move_sample(st_move_sample, test_data)
            IN  /\ train_closeness' = tr.closeness
                /\ train_period' = tr.period
                /\ train_trend' = tr.trend
                /\ train_y' = tr.y
                /\ test_closeness' = te.closeness
                /\ test_period' = te.period
                /\ test_trend' = te.trend
                /\ test_y' = te.y
                /\ train_sequence_len' = SequenceLen(tr.closeness, tr.period, tr.trend)
                /\ test_sequence_len' = SequenceLen(te.closeness, te.period, te.trend)
                /\ pc' = "extsample"
    /\ UNCHANGED <<dataset, twin, daily_slots, lenVars, rangeVars, traffic_data, extVars,
                   ratioVars, normVars, train_data_length, partVars, externalWin>>
    /\ UNCHANGED <<nodeVars, dimVars, tpeVars, graphVars>>
    /\ UNCHANGED <<buildVars, transferVars>>
    /\ raised' = IF pc' = "error" THEN "ConfigError" ELSE raised

\* lines 290-292
external_move_sample == ST_MoveSample(closeness_len, period_len, trend_len, 0, daily_slots)

\* line 300
lstm_move_sample == ST_MoveSample(external_lstm_len, 0, 0, 0, daily_slots)

\* The re-slice starting one row late.
Reslice_late(array, sequence_len) ==
    PySlice(array, -sequence_len, -target_length)

\* lines 306-307, 310-311: array[-sequence_len - target_length : -target_length]
Reslice(array, sequence_len) ==
    PySlice(array, -sequence_len - target_length, -target_length)

\* lines 281-311
SampleExternal ==
    /\ pc = "extsample"
    /\ IF Len(external_feature) > 0
       THEN IF MoveSampleFails(external_move_sample)
            THEN pc' = "error" /\ UNCHANGED <<externalWin, train_ef, test_ef>>
            ELSE LET tr == move_sample(external_move_sample, train_ef)
                     te == move_sample(external_move_sample, test_ef)
                 IN  /\ train_ef_closeness' = Arr(tr.closeness)
                     /\ train_ef_period' = Arr(tr.period)
                     /\ train_ef_trend' = Arr(tr.trend)
                     /\ test_ef_closeness' = Arr(te.closeness)
                     /\ test_ef_period' = Arr(te.period)
                     /\ test_ef_trend' = Arr(te.trend)
                     /\ train_ef' = Reslice(train_ef, train_sequence_len)
                     /\ test_ef' = Reslice(test_ef, test_sequence_len)
                     /\ IF external_lstm_len > 0
                        THEN /\ train_lstm_ef' =
                                  Arr(Reslice(move_sample(lstm_move_sample, train_ef).closeness,
                                              train_sequence_len))
                             /\ test_lstm_ef' =
                                  Arr(Reslice(move_sample(lstm_move_sample, test_ef).closeness,
                                              test_sequence_len))
                             /\ pc' = "tpe"
                        ELSE \* line 310 subscripts None
                             /\ UNCHANGED <<train_lstm_ef, test_lstm_ef>>
                             /\ pc' = "error"
       ELSE pc' = "tpe" /\ UNCHANGED <<externalWin, train_ef, test_ef>>
    /\ UNCHANGED <<dataset, twin, daily_slots, lenVars, rangeVars, traffic_data, extVars,
                   ratioVars, normVars, train_data_length, train_data, test_data, trafficWin>>
    /\ UNCHANGED <<nodeVars, dimVars, tpeVars, graphVars>>
    /\ UNCHANGED <<buildVars, transferVars>>
    /\ raised' = IF pc' = "error" THEN IF MoveSampleFails(external_move_sample) THEN "ConfigError" ELSE "TypeError" ELSE raised

\* lines 324-331: the position markers of the three windows.
closeness_tpe == [j \in 1..closeness_len |-> j]
period_tpe == [j \in 1..period_len |-> j * daily_slots]
trend_tpe == [j \in 1..trend_len |-> j * daily_slots * 7]

\* lines 333-355: the markers are tiled over samples and nodes and
\* concatenated on the last axis, so the element at window position j gains
\* the marker tpe[j] as a further channel.
WithTpe(window, tpe) ==
    [k \in 1..Len(window) |->
        [j \in 1..Len(window[k]) |->
            [slot |-> window[k][j].slot, val |-> window[k][j].val, tpe |-> tpe[j]]]]

\* The sampler's output for a length of 0 is an empty array without the
\* sample, node and position axes, which np.concatenate rejects.
TpeFails == closeness_len = 0 \/ period_len = 0 \/ trend_len = 0

\* lines 321-359
AttachTPE ==
    /\ pc = "tpe"
    /\ \E w \in BOOLEAN :
          /\ with_tpe' = w
          /\ IF w
             THEN IF TpeFails
                  THEN /\ pc' = "error"
                       /\ UNCHANGED <<tpe_dim, trafficWin>>
                  ELSE /\ tpe_dim' = 1
                       /\ train_closeness' = WithTpe(train_closeness, closeness_tpe)
                       /\ train_period' = WithTpe(train_period, period_tpe)
                       /\ train_trend' = WithTpe(train_trend, trend_tpe)
                       /\ test_closeness' = WithTpe(test_closeness, closeness_tpe)
                       /\ test_period' = WithTpe(test_period, period_tpe)
                       /\ test_trend' = WithTpe(test_trend, trend_tpe)
                       /\ UNCHANGED <<train_y, test_y, train_sequence_len, test_sequence_len>>
                       /\ pc' = "graphs"
             ELSE /\ pc' = "graphs"
                  /\ UNCHANGED <<tpe_dim, trafficWin>>
    /\ UNCHANGED <<dataset, twin, daily_slots, lenVars, rangeVars, traffic_data, extVars,
                   ratioVars, normVars, train_data_length, partVars, externalWin>>
    /\ UNCHANGED <<nodeVars, dimVars, graphVars>>
    /\ UNCHANGED <<buildVars, transferVars>>
    /\ raised' = IF pc' = "error" THEN "ValueError" ELSE raised

\* A matrix over nodes: the raw node position behind each row and column.
NoMatrix == [none |-> TRUE, rows |-> <<>>, cols |-> <<>>, graph |-> ""]
Matrix(name, rows, cols) == [none |-> FALSE, rows |-> rows, cols |-> cols, graph |-> name]

\* The raw node positions of the dataset.
RawNodes == [i \in 1..Len(dataset.node_traffic_sum) |-> i - 1]

\* GraphBuilder: every operation returns a matrix over the nodes it is given.
distance_adjacent(nodes) == Matrix("distance", nodes, nodes)
interaction_adjacent(nodes) == Matrix("interaction", nodes, nodes)
correlation_adjacent(nodes) == Matrix("correlation", nodes, nodes)
adjacent_to_laplacian(name, A) == Matrix(name, A.rows, A.cols)

\* lines 377-415
build_graph(graph_name) ==
    LET name == Lower(graph_name)
        kept == traffic_data_index
    IN  CASE name = "distance" ->
               [AM |-> distance_adjacent(kept),
                LM |-> adjacent_to_laplacian(name, distance_adjacent(kept))]
          [] name = "interaction" ->
               [AM |-> interaction_adjacent(kept),
                LM |-> adjacent_to_laplacian(name, interaction_adjacent(kept))]
          [] name = "correlation" ->
               [AM |-> correlation_adjacent(node_axis.train_data),
                LM |-> adjacent_to_laplacian(name, correlation_adjacent(node_axis.train_data))]
          [] name = "neighbor" ->
               [AM |-> NoMatrix,
                LM |-> adjacent_to_laplacian(name, Matrix(name, RawNodes, RawNodes))]
          [] name = "line" ->
               [AM |-> NoMatrix,
                LM |-> Matrix(name, kept, kept)]
          [] name = "transfer" ->
               [AM |-> NoMatrix,
                LM |-> adjacent_to_laplacian(name, Matrix(name, RawNodes, RawNodes))]
          [] OTHER -> [AM |-> NoMatrix, LM |-> NoMatrix]

\* lines 389-390: the monthly interaction is split over its months.
InteractionFails(names) ==
    /\ \E j \in 1..Len(names) : Lower(names[j]) = "interaction"
    /\ SplitFails([m \in 1..dataset.node_monthly_interaction.months |-> m])

IsMatrix_any(m) == TRUE

\* lines 370-373: None is not appended.
IsMatrix(m) == ~m.none

\* lines 368-373: the matrices appended, in the order of the names.
Appended(names, field) ==
    SelectSeq([j \in 1..Len(names) |-> build_graph(names[j])[field]], IsMatrix)

\* line 375: np.array needs matrices of one shape.
StackFails(list) ==
    \E a, b \in 1..Len(list) :
        Len(list[a].rows) # Len(list[b].rows) \/ Len(list[a].cols) # Len(list[b].cols)

\* lines 361-375
BuildGraphs ==
    /\ pc = "graphs"
    /\ \/ /\ with_lm' = FALSE
          /\ pc' = "done"
          /\ UNCHANGED <<graph, AM, LM, raised>>
       \/ \E names \in GraphArgs :
             /\ with_lm' = TRUE
             /\ graph' = names
             /\ IF InteractionFails(names)
                THEN /\ pc' = "error" /\ raised' = "ConfigError"
                     /\ UNCHANGED <<AM, LM>>
                ELSE /\ AM' = Appended(names, "AM")
                     /\ LM' = Appended(names, "LM")
                     /\ IF StackFails(Appended(names, "LM"))
                        THEN pc' = "error" /\ raised' = "ValueError"
                        ELSE pc' = "done" /\ UNCHANGED raised
    /\ UNCHANGED <<dataset, twin, daily_slots, lenVars, rangeVars, traffic_data, extVars,
                   ratioVars, normVars, train_data_length, partVars, trafficWin, externalWin>>
    /\ UNCHANGED <<nodeVars, dimVars, tpeVars>>
    /\ UNCHANGED <<buildVars, transferVars>>

\* The last channel ([..., -1]) of a window element.
LastChannel(e) == IF "tpe" \in DOMAIN e THEN e.tpe ELSE e.val

\* The index the last channel has: 0 is the traffic channel, 1 the position
\* marker concatenated after it.
LastChannelIndex(e) == IF "tpe" \in DOMAIN e THEN 1 ELSE 0

\* The node argument of make_concat: 'all' or one node index.
NodeAll == [all |-> TRUE, index |-> 0]
NodeIndex(i) == [all |-> FALSE, index |-> i]

\* The window element copied to position q with the period block first.
history_cell_period_first(closeness, period, trend, k, q) ==
    IF q < period_len THEN period[k][q + 1]
    ELSE IF q < period_len + closeness_len THEN closeness[k][q - period_len + 1]
    ELSE trend[k][q - closeness_len - period_len + 1]

\* lines 510-515: the window element copied to position q (0-based) of
\* sample k.
history_cell(closeness, period, trend, k, q) ==
    IF q < closeness_len THEN closeness[k][q + 1]
    ELSE IF q < closeness_len + period_len THEN period[k][q - closeness_len + 1]
    ELSE trend[k][q - closeness_len - period_len + 1]

\* lines 475-517: indexed by sample, node, position and the added last axis.
make_concat(node, is_train) ==
    LET length == Len(IF is_train THEN train_y ELSE test_y)
        closeness == IF is_train THEN train_closeness ELSE test_closeness
        period == IF is_train THEN train_period ELSE test_period
        trend == IF is_train THEN train_trend ELSE test_trend
        nodes == IF node.all THEN [i \in 1..station_number |-> i - 1] ELSE <<node.index>>
    IN  [k \in 1..length |->
            [i \in 1..Len(nodes) |->
                [q \in 1..(closeness_len + period_len + trend_len) |->
                    LET cell == history_cell(closeness, period, trend, k, q - 1)
                    IN  <<[node |-> nodes[i], slot |-> cell.slot,
                           channel |-> LastChannelIndex(cell),
                           value |-> LastChannel(cell)]>>]]]

\* The placeholders registered for every length other than zero.
TemporalInputs_nonzero ==
    (IF model.closeness_len # 0 THEN <<"closeness_feature">> ELSE <<>>)
    \o (IF model.period_len # 0 THEN <<"period_feature">> ELSE <<>>)
    \o (IF model.trend_len # 0 THEN <<"trend_feature">> ELSE <<>>)

\* lines 140-155: the placeholders registered for the lengths above zero,
\* in the order of temporal_features.
TemporalInputs ==
    (IF model.closeness_len > 0 THEN <<"closeness_feature">> ELSE <<>>)
    \o (IF model.period_len > 0 THEN <<"period_feature">> ELSE <<>>)
    \o (IF model.trend_len > 0 THEN <<"trend_feature">> ELSE <<>>)

\* lines 157-161
WeatherInput == IF model.weather_len > 0 THEN <<"weather_feature">> ELSE <<>>

\* lines 138-169
BuildInputs ==
    /\ build_pc = "inputs"
    /\ IF Len(TemporalInputs) > 0
       THEN /\ input' = TemporalInputs \o WeatherInput \o <<"target", "laplace_matrix">>
            /\ build_pc' = "external"
            /\ UNCHANGED build_raised
       ELSE /\ input' = TemporalInputs \o WeatherInput
            /\ build_pc' = "error"
            /\ build_raised' = "ValueError"
    /\ UNCHANGED <<model, embedding_layers>>
    /\ UNCHANGED <<loaderVars, transferVars>>

\* lines 267-268: the condition whose ValueError is constructed, not raised.
NoExternalFeature == model.external_dim.none \/ model.external_dim.dim < 1

\* lines 271-283, 286-288: reshaping the external placeholder to
\* [-1, 1, 1, external_dim] fails for None; for a width below 1 the
\* outcome is TensorFlow's.
ReshapeOutcomes ==
    IF model.external_dim.none THEN {"TypeError"}
    ELSE IF model.external_dim.dim < 1 THEN {"", "InvalidArgumentError"}
    ELSE {""}

\* lines 307-312: the Dense layers created before embedding_dim[i] has no
\* element.
ClassifiedLayers ==
    Min2(Len(model.classified_external_feature_dim), Len(model.embedding_dim))

\* lines 264-333
BuildExternal ==
    /\ build_pc = "external"
    /\ IF model.external_method = "not"
       THEN /\ build_pc' = "output"
            /\ UNCHANGED <<input, embedding_layers, build_raised>>
       ELSE /\ input' = Append(input, "external_feature")
            /\ IF model.external_method \in {"gating", "add", "direct"}
               THEN /\ \E outcome \in ReshapeOutcomes :
                          /\ build_raised' = outcome
                          /\ build_pc' = IF outcome = "" THEN "output" ELSE "error"
                    /\ UNCHANGED embedding_layers
               ELSE IF model.external_method = "classified"
               THEN /\ embedding_layers' = ClassifiedLayers
                    /\ IF Len(model.classified_external_feature_dim) > Len(model.embedding_dim)
                       THEN build_pc' = "error" /\ build_raised' = "IndexError"
                       ELSE build_pc' = "output" /\ UNCHANGED build_raised
               ELSE \* line 333 reads external_dense, which no branch assigned
                    /\ build_pc' = "error"
                    /\ build_raised' = "UnboundLocalError"
                    /\ UNCHANGED embedding_layers
    /\ UNCHANGED model
    /\ UNCHANGED <<loaderVars, transferVars>>

\* lines 342-384: the dense output layers, the loss and the optimizer, whose
\* global step is registered as an input.
BuildOutput ==
    /\ build_pc = "output"
    /\ input' = Append(input, "global_step")
    /\ build_pc' = "done"
    /\ UNCHANGED <<model, embedding_layers, build_raised>>
    /\ UNCHANGED <<loaderVars, transferVars>>

\* lines 388-411: the keys of the feed mapping.
get_feed_dict(with_target) ==
    {"laplace_matrix"}
    \cup (IF with_target THEN {"target"} ELSE {})
    \cup (IF /\ model.external_method # "not"
             /\ ~model.external_dim.none
             /\ model.external_dim.dim > 0
          THEN {"external_feature"} ELSE {})
    \cup (IF model.closeness_len > 0 THEN {"closeness_feature"} ELSE {})
    \cup (IF model.period_len > 0 THEN {"period_feature"} ELSE {})
    \cup (IF model.trend_len > 0 THEN {"trend_feature"} ELSE {})
    \cup (IF model.weather_len > 0 THEN {"weather_feature"} ELSE {})

\* The rows of the target loader the method compares with: td_loader in
\* traffic_sim, fake_td_loader in traffic_sim_fake.
ComparedRows ==
    IF transfer.method = "traffic_sim" THEN transfer.td_rows ELSE transfer.fake_rows

\* cosine_similarity of target node e with source node j over the source
\* window starting at i, in quarters.
SimValue(i, e, j) == ((transfer.seed + 1) * (i + e) + j * (i + 2)) % 4

\* np.max(sim, axis=1) and np.argmax(sim, axis=1), the first maximum.
max_sim(i, e) == SetMax({SimValue(i, e, j) : j \in 0..(transfer.sd_nodes - 1)})
max_index(i, e) ==
    SetMin({j \in 0..(transfer.sd_nodes - 1) : SimValue(i, e, j) = max_sim(i, e)})

\* lines 553-554 and 579-580: the end recorded when a later window replaces
\* a record; both methods add the rows of td_loader.
ReplacedEnd(i) == i + transfer.td_rows

\* lines 539-554, 564-580: one pass of the loop body.
ScanWindow ==
    /\ transfer_pc = "scan"
    /\ scan_i < transfer.sd_rows - ComparedRows
    /\ similar_record' =
          IF Len(similar_record) = 0
          THEN [e \in 1..transfer.td_nodes |->
                   [sim |-> max_sim(scan_i, e - 1), index |-> max_index(scan_i, e - 1),
                    start |-> scan_i, end |-> scan_i + ComparedRows]]
          ELSE [e \in 1..Len(similar_record) |->
                   IF similar_record[e].sim < max_sim(scan_i, e - 1)
                   THEN [sim |-> max_sim(scan_i, e - 1), index |-> max_index(scan_i, e - 1),
                         start |-> scan_i, end |-> ReplacedEnd(scan_i)]
                   ELSE similar_record[e]]
    /\ scan_i' = scan_i + transfer.daily_slots
    /\ UNCHANGED <<transfer_pc, transfer>>
    /\ UNCHANGED <<loaderVars, buildVars>>

\* lines 539-540, 556 and 564-565, 582: the range is exhausted, the list is
\* returned.
ReturnRecord ==
    /\ transfer_pc = "scan"
    /\ scan_i >= transfer.sd_rows - ComparedRows
    /\ transfer_pc' = "done"
    /\ UNCHANGED <<transfer, scan_i, similar_record>>
    /\ UNCHANGED <<loaderVars, buildVars>>

Next ==
    \/ LoadDataset
    \/ CheckLengths
    \/ ResolveRange
    \/ FilterNodes
    \/ AssembleExternal
    \/ CheckRatio
    \/ Split
    \/ Normalize
    \/ Truncate
    \/ ExpandTest
    \/ SampleTraffic
    \/ SampleExternal
    \/ AttachTPE
    \/ BuildGraphs
    \/ BuildInputs
    \/ BuildExternal
    \/ BuildOutput
    \/ ScanWindow
    \/ ReturnRecord

Spec == Init /\ [][Next]_vars

\* ------------------------------------------------------------ properties
\* The lookback the loader's window lengths require.
Lookback == Max3(closeness_len, period_len * daily_slots, trend_len * 7 * daily_slots)

\* The partitions the split returned, before any later phase touched them.
SplitTrain == split_data(traffic_data, train_test_ratio)[1]
SplitTest == split_data(traffic_data, train_test_ratio)[2]
SplitTestEf == split_data(external_feature, train_test_ratio)[2]

\* The value a raw row has after the optional normalisation.
Normalized(row) ==
    IF normalize THEN min_max_normal(normalizer, <<row>>)[1] ELSE row

ExternalEnabled == Len(external_feature) > 0
Sampled == pc \in {"extsample", "tpe", "graphs", "done"}

\* C1: the number of trailing train rows prepended to the test partition
\* and to test_ef equals the windower's max_lookback, for every
\* configuration and every train-partition length.
C1_ExpansionEqualsLookback ==
    pc = "sample" =>
        /\ Len(test_data) - Len(SplitTest) = max_lookback(st_move_sample)
        /\ Len(test_ef) - Len(SplitTestEf) = max_lookback(st_move_sample)

\* C2: after construction test_y holds exactly one target per slot of the
\* test partition returned by the split, in order, starting at the first
\* test slot.
C2_TestYIsTestPartition ==
    pc = "done" =>
        /\ Len(test_y) = Len(SplitTest)
        /\ \A k \in 1..Len(test_y) : test_y[k] = <<Normalized(SplitTest[k])>>

\* The traffic channel of a window (its elements without a position marker).
Traffic(w) == [j \in 1..Len(w) |-> [slot |-> w[j].slot, val |-> w[j].val]]

\* Row k of the four arrays is built around the current index i of data.
WindowsAt(data, k, i, closeness, period, trend, y) ==
    /\ closeness_len > 0 =>
          /\ Len(closeness) = Len(y)
          /\ Traffic(closeness[k]) = [j \in 1..closeness_len |-> At(data, i - closeness_len + j - 1)]
    /\ period_len > 0 =>
          /\ Len(period) = Len(y)
          /\ Traffic(period[k]) = [j \in 1..period_len |->
                              At(data, i - (period_len - j + 1) * daily_slots)]
    /\ trend_len > 0 =>
          /\ Len(trend) = Len(y)
          /\ Traffic(trend[k]) = [j \in 1..trend_len |->
                              At(data, i - (trend_len - j + 1) * 7 * daily_slots)]
    /\ y[k] = <<At(data, i)>>

\* C3: every sample row k of the train and test outputs has one current
\* slot i: closeness[k] = data[i-closeness_len .. i-1], period[k] =
\* data[i - j*daily_slots] for j = period_len..1, trend[k] =
\* data[i - j*7*daily_slots] for j = trend_len..1, y[k] = data[i].
C3_WindowsShareCurrentSlot ==
    Sampled =>
        /\ \A k \in 1..Len(train_y) : \E i \in Lookback..(Len(train_data) - 1) :
              WindowsAt(train_data, k, i, train_closeness, train_period, train_trend, train_y)
        /\ \A k \in 1..Len(test_y) : \E i \in Lookback..(Len(test_data) - 1) :
              WindowsAt(test_data, k, i, test_closeness, test_period, test_trend, test_y)

C3_Witness ==
    /\ pc = "done"
    /\ closeness_len = 2 /\ period_len = 2 /\ trend_len = 1 /\ daily_slots = 1
    /\ Len(train_y) > 1 /\ Len(test_y) > 1

\* C4: len(train_y) = len(train_data) - max_lookback when that difference
\* is non-negative: the leading max_lookback slots are skipped and every
\* later slot yields one sample.
C4_TrainYLength ==
    (Sampled /\ Len(train_data) >= Lookback) =>
        /\ Len(train_y) = Len(train_data) - Lookback
        /\ \A k \in 1..Len(train_y) : train_y[k] = <<train_data[Lookback + k]>>

C4_Witness ==
    /\ pc = "done"
    /\ train_data_length.kind = "str"
    /\ Len(train_data) < Len(SplitTrain)
    /\ Len(train_y) > 0

\* Row r of the external array describes the time slot of row r of the
\* traffic array, and both arrays have the same number of rows.
Aligned(traffic, external) ==
    /\ Len(traffic) = Len(external)
    /\ \A r \in 1..Len(traffic) : external[r].slot = traffic[r].slot

\* C5: with an external source enabled, train_data / train_ef and
\* test_data / test_ef stay row-aligned after the split, after the
\* truncation and after the test expansion.
C5_ExternalRowsAligned ==
    (ExternalEnabled /\ pc \in {"normalize", "truncate", "expand", "sample", "extsample"}) =>
        /\ Aligned(train_data, train_ef)
        /\ Aligned(test_data, test_ef)

C8_LstmExternalLength ==
    (pc = "done" /\ ExternalEnabled /\ external_lstm_len > 0) =>
        /\ Len(train_lstm_ef.rows) = train_sequence_len
        /\ Len(test_lstm_ef.rows) = test_sequence_len

\* Row k of an external window refers to the slots of row k of the
\* traffic window, and both arrays have the same number of rows.
SameWindows(external, traffic) ==
    /\ ~external.none
    /\ Len(external.rows) = Len(traffic)
    /\ \A k \in 1..Len(traffic) : \A j \in 1..Len(traffic[k]) :
          external.rows[k][j].slot = traffic[k][j].slot

\* C9: the windowed external arrays whose length parameter is > 0 have the
\* same number of rows as the traffic windows and row k refers to the same
\* current slot, for train and for test.
C9_ExternalWindowsMatch ==
    (pc = "done" /\ ExternalEnabled) =>
        /\ closeness_len > 0 =>
              /\ SameWindows(train_ef_closeness, train_closeness)
              /\ SameWindows(test_ef_closeness, test_closeness)
        /\ period_len > 0 =>
              /\ SameWindows(train_ef_period, train_period)
              /\ SameWindows(test_ef_period, test_period)
        /\ trend_len > 0 =>
              /\ SameWindows(train_ef_trend, train_trend)
              /\ SameWindows(test_ef_trend, test_trend)

\* Some external output differs in row count from the traffic sequence.
ExternalMisaligned ==
    \/ Len(train_ef) # train_sequence_len
    \/ Len(test_ef) # test_sequence_len
    \/ closeness_len > 0 /\ Len(train_ef_closeness.rows) # train_sequence_len
    \/ closeness_len > 0 /\ Len(test_ef_closeness.rows) # test_sequence_len
    \/ period_len > 0 /\ Len(train_ef_period.rows) # train_sequence_len
    \/ period_len > 0 /\ Len(test_ef_period.rows) # test_sequence_len
    \/ trend_len > 0 /\ Len(train_ef_trend.rows) # train_sequence_len
    \/ trend_len > 0 /\ Len(test_ef_trend.rows) # test_sequence_len
    \/ external_lstm_len > 0 /\ Len(train_lstm_ef.rows) # train_sequence_len
    \/ external_lstm_len > 0 /\ Len(test_lstm_ef.rows) # test_sequence_len

\* C10: a loader whose external outputs differ in row count from the
\* traffic sequence length is never returned: construction aborts instead.
C10_MisalignedNeverReturned ==
    (pc = "done" /\ ExternalEnabled) => ~ExternalMisaligned

\* The phases that run after the node filter.
AfterFilter == {"external", "ratio", "split", "normalize", "truncate", "expand",
                "sample", "extsample", "tpe", "graphs", "done"}

\* The elements of a sequence.
Range(seq) == {seq[i] : i \in 1..Len(seq)}

\* C11: traffic_data_index holds exactly the raw node positions whose mean
\* traffic times daily_slots is > 1, in increasing order, and after
\* construction len(traffic_data_index) = station_number = the node-axis
\* size of traffic_data, train_data and test_data.
C11_ActiveNodeIndex ==
    /\ pc \in AfterFilter =>
          /\ \A i \in 0..(Len(dataset.node_traffic_sum) - 1) :
                (i \in Range(traffic_data_index)) <=>
                    (dataset.node_traffic_sum[i + 1] * daily_slots > Len(dataset.node_traffic))
          /\ \A a, b \in 1..Len(traffic_data_index) :
                a < b => traffic_data_index[a] < traffic_data_index[b]
    /\ pc = "done" =>
          /\ Len(traffic_data_index) = station_number
          /\ Len(node_axis.traffic_data) = station_number
          /\ Len(node_axis.train_data) = station_number
          /\ Len(node_axis.test_data) = station_number

C11_Witness ==
    /\ pc = "done"
    /\ station_number > 0
    /\ station_number < Len(dataset.node_traffic_sum)

\* The phases that run after the external feature matrix is assembled.
AfterExternal == AfterFilter \ {"external"}

RECURSIVE SeqSum(_)
SeqSum(seq) == IF seq = <<>> THEN 0 ELSE Head(seq) + SeqSum(Tail(seq))

\* The sources enabled, in the order weather, holiday, tp.
EnabledSources ==
    (IF WeatherUsed(external_use) THEN <<"weather">> ELSE <<>>)
    \o (IF "holiday" \in external_use THEN <<"holiday">> ELSE <<>>)
    \o (IF "tp" \in external_use THEN <<"tp">> ELSE <<>>)

\* The source a column of the matrix belongs to.
SourceOf(label) == IF label \in {"hourofday", "dayofweek"} THEN "tp" ELSE label

\* The position of a block in the fixed order.
BlockRank(label) ==
    IF label = "weather" THEN 1
    ELSE IF label = "holiday" THEN 2
    ELSE IF label = "hourofday" THEN 3 ELSE 4

\* C15: the external matrix is the concatenation of the enabled blocks in
\* the order weather, holiday, hour-of-day, day-of-week; external_onehot_dim
\* has one width per enabled source in the order weather, holiday, tp; its
\* sum is external_dim, and slicing the matrix by cumulative widths
\* returns the columns of each source.
C15_OnehotDimSlicesBlocks ==
    (pc \in AfterExternal /\ EnabledSources # <<>>) =>
        /\ \A a, b \in 1..Len(external_columns) :
              a < b => BlockRank(external_columns[a]) <= BlockRank(external_columns[b])
        /\ Len(external_onehot_dim) = Len(EnabledSources)
        /\ SeqSum(external_onehot_dim) = external_dim
        /\ external_dim = Len(external_columns)
        /\ \A j \in 1..Len(external_onehot_dim) :
              LET ind == SeqSum(SubSeq(external_onehot_dim, 1, j - 1))
              IN  \A col \in 1..Len(external_columns) :
                     (ind < col /\ col <= ind + external_onehot_dim[j])
                        <=> (SourceOf(external_columns[col]) = EnabledSources[j])

C15_Witness ==
    /\ pc = "done"
    /\ external_use = {"weather", "holiday", "tp"}
    /\ Len(external_onehot_dim) = 3
    /\ external_dim > 5

C17_ChecksBeforeLoading ==
    pc \in {"lengths", "ratio"} =>
        /\ daily_slots = 0
        /\ traffic_data_index = <<>> /\ traffic_data = <<>>
        /\ external_feature = <<>> /\ external_dim = 0

\* C18: with closeness_len, period_len and trend_len all zero the sampling
\* step raises a configuration error, so no such construction gets further.
AllLengthsZero == closeness_len = 0 /\ period_len = 0 /\ trend_len = 0

C18_AllZeroLengthsAbort ==
    /\ [](AllLengthsZero => pc \notin {"extsample", "tpe", "graphs", "done"})
    /\ [][(pc = "sample" /\ AllLengthsZero) =>
             (pc' = "error" /\ raised' = "ConfigError")]_vars

C18_Witness ==
    /\ pc = "error" /\ raised = "ConfigError"
    /\ AllLengthsZero
    /\ Len(train_data) > 0 /\ Len(test_data) > 0

\* C20: a train_data_length of d days, given as an integer or as a string,
\* leaves in train_data and train_ef exactly the most recent
\* min(int(d * daily_slots), len) rows of the train partition, for every
\* d >= 0.
SplitTrainEf == split_data(external_feature, train_test_ratio)[1]

MostRecent(array, whole, k) ==
    /\ Len(array) = k
    /\ \A i \in 1..k : array[i].slot = whole[Len(whole) - k + i].slot

C20_TruncationKeepsMostRecentDays ==
    /\ (pc = "error" /\ raised = "AttributeError") => train_data_length.kind # "int"
    /\ (pc = "expand" /\ train_data_length.kind # "all") =>
          LET k == Min2(train_data_length.days * daily_slots, Len(SplitTrain))
          IN  /\ MostRecent(train_data, SplitTrain, k)
              /\ ExternalEnabled =>
                    MostRecent(train_ef, SplitTrainEf,
                               Min2(train_data_length.days * daily_slots, Len(SplitTrainEf)))

\* C12: every operator stored in LM is square with side
\* len(traffic_data_index), also when the activity filter removed nodes.
C12_LaplacianSideIsKeptNodes ==
    (pc = "done" /\ with_lm) =>
        \A j \in 1..Len(LM) :
            /\ Len(LM[j].rows) = Len(traffic_data_index)
            /\ Len(LM[j].cols) = Len(traffic_data_index)

\* The graph type a name stands for, whatever its letter case.
GraphType(name) ==
    IF name \in {"Distance", "distance", "DISTANCE"} THEN "distance"
    ELSE IF name \in {"Interaction", "interaction", "INTERACTION"} THEN "interaction"
    ELSE IF name \in {"Correlation", "correlation", "CORRELATION"} THEN "correlation"
    ELSE IF name \in {"Neighbor", "neighbor", "NEIGHBOR"} THEN "neighbor"
    ELSE IF name \in {"Line", "line", "LINE"} THEN "line"
    ELSE IF name \in {"Transfer", "transfer", "TRANSFER"} THEN "transfer"
    ELSE "unsupported"

AllSupported(names) == \A j \in 1..Len(names) : GraphType(names[j]) # "unsupported"

\* C13: with with_lm = True and only supported names in graph (in any
\* letter case), LM has one Laplacian per name, in the order of the names.
C13_OneLaplacianPerName ==
    (with_lm /\ raised # "ConfigError" /\ AllSupported(graph)) =>
        /\ Len(LM) = Len(graph)
        /\ \A j \in 1..Len(graph) : ~LM[j].none /\ LM[j].graph = GraphType(graph[j])

C13_Witness ==
    /\ pc = "done" /\ with_lm
    /\ Len(graph) = 4 /\ Len(LM) = 4
    /\ station_number < Len(dataset.node_traffic_sum)

\* C14: make_concat(node, is_train) has shape
\* [len(y), n, closeness_len + period_len + trend_len, 1] with n =
\* station_number for 'all' and 1 for one node; position c holds closeness
\* slot c, closeness_len + p period slot p, closeness_len + period_len + t
\* trend slot t, each sub-window from its earliest to its latest slot.
HistoryLayout(node, is_train) ==
    LET h == make_concat(node, is_train)
        y == IF is_train THEN train_y ELSE test_y
        closeness == IF is_train THEN train_closeness ELSE test_closeness
        period == IF is_train THEN train_period ELSE test_period
        trend == IF is_train THEN train_trend ELSE test_trend
        n == IF node.all THEN station_number ELSE 1
        Holds(k, i, q, e) ==
            /\ h[k][i][q + 1][1].slot = e.slot
            /\ h[k][i][q + 1][1].value = LastChannel(e)
    IN  /\ Len(h) = Len(y)
        /\ \A k \in 1..Len(h) :
              /\ Len(h[k]) = n
              /\ \A i \in 1..n :
                    /\ Len(h[k][i]) = closeness_len + period_len + trend_len
                    /\ \A q \in 1..Len(h[k][i]) : Len(h[k][i][q]) = 1
                    /\ h[k][i][1][1].node = (IF node.all THEN i - 1 ELSE node.index)
                    /\ \A c \in 0..(closeness_len - 1) : Holds(k, i, c, closeness[k][c + 1])
                    /\ \A p \in 0..(period_len - 1) :
                          Holds(k, i, closeness_len + p, period[k][p + 1])
                    /\ \A t \in 0..(trend_len - 1) :
                          Holds(k, i, closeness_len + period_len + t, trend[k][t + 1])
                    /\ \A a, b \in 1..Len(h[k][i]) :
                          (/\ a < b
                           /\ (b <= closeness_len
                               \/ (a > closeness_len /\ b <= closeness_len + period_len)
                               \/ a > closeness_len + period_len))
                             => h[k][i][a][1].slot < h[k][i][b][1].slot

C14_ConcatLayout ==
    pc = "done" =>
        \A is_train \in BOOLEAN :
            /\ HistoryLayout(NodeAll, is_train)
            /\ \A i \in 0..(station_number - 1) : HistoryLayout(NodeIndex(i), is_train)

C14_Witness ==
    /\ pc = "done"
    /\ closeness_len = 2 /\ period_len = 2 /\ trend_len = 1
    /\ station_number > 1
    /\ Len(make_concat(NodeAll, TRUE)) > 1
    /\ Len(make_concat(NodeIndex(1), FALSE)) > 1

\* C19: a build with external_method = 'classified' and
\* len(classified_external_feature_dim) # len(embedding_dim) aborts before
\* any per-class embedding layer is created; a build with an unsupported
\* external_method, or with external_dim missing or below 1 and
\* external_method # 'not', aborts with an error.
ExternalPhaseOver == build_pc \in {"output", "done", "error"}

SupportedMethods == {"not", "gating", "add", "direct", "embedding", "classified", "lstm"}

C19_InvalidExternalSetupAborts ==
    ExternalPhaseOver =>
        /\ (/\ model.external_method = "classified"
            /\ Len(model.classified_external_feature_dim) # Len(model.embedding_dim))
              => (build_pc = "error" /\ embedding_layers = 0)
        /\ model.external_method \notin SupportedMethods => build_pc = "error"
        /\ (model.external_method # "not" /\ NoExternalFeature) => build_pc = "error"

\* C21: build raises ValueError when closeness_len, period_len and
\* trend_len are all <= 0; otherwise it registers 'target' and
\* 'laplace_matrix' and one placeholder for exactly each of the three
\* lengths above zero, in the order closeness, period, trend.
InputsRegistered == build_pc \in {"external", "output", "done", "error"}

TemporalRank(name) ==
    IF name = "closeness_feature" THEN 1 ELSE IF name = "period_feature" THEN 2 ELSE 3

IsTemporal(name) == name \in {"closeness_feature", "period_feature", "trend_feature"}

C21_BuildRegistersTemporalInputs ==
    InputsRegistered =>
        IF model.closeness_len <= 0 /\ model.period_len <= 0 /\ model.trend_len <= 0
        THEN build_pc = "error" /\ build_raised = "ValueError"
        ELSE /\ "target" \in Range(input) /\ "laplace_matrix" \in Range(input)
             /\ ("closeness_feature" \in Range(input)) <=> (model.closeness_len > 0)
             /\ ("period_feature" \in Range(input)) <=> (model.period_len > 0)
             /\ ("trend_feature" \in Range(input)) <=> (model.trend_len > 0)
             /\ \A a, b \in 1..Len(input) :
                   (a < b /\ IsTemporal(input[a]) /\ IsTemporal(input[b]))
                      => TemporalRank(input[a]) < TemporalRank(input[b])

C21_Witness ==
    /\ build_pc = "done"
    /\ model.closeness_len > 0 /\ model.period_len > 0 /\ model.trend_len > 0
    /\ Len(SelectSeq(input, IsTemporal)) = 3

\* C23: after a successful build the keys of _get_feed_dict (called with a
\* target) are the names registered in _input other than 'global_step'.
C23_FeedKeysAreRegisteredInputs ==
    build_pc = "done" => get_feed_dict(TRUE) = Range(input) \ {"global_step"}

\* C22: the values make_concat returns are the traffic observations of
\* the windows, with with_tpe = False as with with_tpe = True.
ConcatIsTraffic(is_train) ==
    LET h == make_concat(NodeAll, is_train)
        closeness == IF is_train THEN train_closeness ELSE test_closeness
        period == IF is_train THEN train_period ELSE test_period
        trend == IF is_train THEN train_trend ELSE test_trend
    IN  \A k \in 1..Len(h) : \A i \in 1..Len(h[k]) : \A q \in 1..Len(h[k][i]) :
            /\ h[k][i][q][1].channel = 0
            /\ h[k][i][q][1].slot = history_cell(closeness, period, trend, k, q - 1).slot

C22_ConcatReturnsTraffic ==
    pc = "done" => ConcatIsTraffic(TRUE) /\ ConcatIsTraffic(FALSE)

\* C24: the rows borrowed into the expanded test array are at most
\* max_lookback, every entry of test_y is a slot of the test partition,
\* and train_y and test_y share no slot.
Slots(rows) == {rows[r].slot : r \in 1..Len(rows)}
TargetSlots(y) == {y[k][1].slot : k \in 1..Len(y)}
Borrowed == Len(test_data) - Len(SplitTest)

C24_NoTrainRowIsTestTarget ==
    /\ pc \in {"sample", "extsample", "tpe", "graphs", "done"} => Borrowed <= Lookback
    /\ Sampled =>
          /\ TargetSlots(test_y) \subseteq Slots(SplitTest)
          /\ TargetSlots(test_y) \cap Slots(SplitTrain) = {}
          /\ TargetSlots(test_y) \cap TargetSlots(train_y) = {}

C24_Witness ==
    /\ pc = "done"
    /\ Lookback > 1 /\ Borrowed = Lookback
    /\ Len(test_y) > 1 /\ Len(train_y) > 1

\* C25: after the re-slicing, row k of train_ef (of test_ef) is the
\* external vector of the slot just before the target slot of sample k.
PrecedesTarget(ef, y) ==
    /\ Len(ef) = Len(y)
    /\ \A k \in 1..Len(y) : ef[k].slot = y[k][1].slot - 1

C25_ExternalRowPrecedesTarget ==
    (pc \in {"tpe", "graphs", "done"} /\ ExternalEnabled) =>
        /\ PrecedesTarget(train_ef, train_y)
        /\ PrecedesTarget(test_ef, test_y)

\* C26: a name that is none of the six graph types is skipped without an
\* error: LM has one entry per supported name, fewer than the names given,
\* and AM has entries for distance, interaction and correlation only, so
\* len(AM) <= len(LM).
IsSupportedName(name) == GraphType(name) # "unsupported"
HasAdjacency(name) == GraphType(name) \in {"distance", "interaction", "correlation"}

C26_UnknownGraphNameSkipped ==
    /\ []((with_lm /\ raised # "ConfigError") =>
            /\ Len(LM) = Len(SelectSeq(graph, IsSupportedName))
            /\ Len(AM) = Len(SelectSeq(graph, HasAdjacency))
            /\ Len(AM) <= Len(LM)
            /\ (~AllSupported(graph)) => Len(LM) < Len(graph))
    /\ [][(pc = "graphs" /\ pc' = "error") => StackFails(LM')]_vars

C26_Witness ==
    /\ pc = "done" /\ with_lm
    /\ ~AllSupported(graph)
    /\ Len(LM) = 2 /\ Len(AM) = 1

\* C27: for every accepted data_range the external feature matrix has as
\* many rows as traffic_data: num_time_slots = len(traffic_data), also
\* when the day range ends past the raw series.
C27_ExternalRowsEqualTrafficRows ==
    (pc \in AfterExternal /\ ExternalEnabled) =>
        /\ num_time_slots = Len(traffic_data)
        /\ Len(external_feature) = Len(traffic_data)

\* C28: with external features enabled and external_lstm_len = 0 the
\* construction completes, train_lstm_ef and test_lstm_ef stay None and
\* train_ef and test_ef are re-sliced to the sequence length.
C28_NoLstmWindowCompletes ==
    /\ []((pc \in {"tpe", "graphs", "done"} /\ ExternalEnabled /\ external_lstm_len = 0) =>
            /\ train_lstm_ef = None /\ test_lstm_ef = None
            /\ Len(train_ef) = train_sequence_len /\ Len(test_ef) = test_sequence_len)
    /\ [][(/\ pc = "extsample" /\ ExternalEnabled /\ external_lstm_len = 0
           /\ ~MoveSampleFails(external_move_sample))
             => pc' = "tpe"]_vars

\* C29: every record [sim, index, start, end] returned by traffic_sim and
\* traffic_sim_fake has end - start = the train rows of the target loader
\* compared in that search, and sim is the maximum over the scanned source
\* windows of the node's best similarity, the earliest window winning ties.
ScannedWindows ==
    {i \in 0..(transfer.sd_rows - ComparedRows - 1) : i % transfer.daily_slots = 0}

C29_RecordSpansComparedRows ==
    transfer_pc = "done" =>
        \A e \in 1..Len(similar_record) :
            LET rec == similar_record[e]
                best == SetMax({max_sim(i, e - 1) : i \in ScannedWindows})
            IN  /\ rec.end - rec.start = ComparedRows
                /\ rec.sim = best
                /\ rec.start = SetMin({i \in ScannedWindows : max_sim(i, e - 1) = best})
                /\ rec.index = max_index(rec.start, e - 1)

====
